---- MODULE Spec2Model ----
(***************************************************************************)
(* Session orchestration core of the Platium game streaming backend:       *)
(* the REST handlers POST /api/sessions, POST /api/sessions/:id/join,       *)
(* DELETE /api/sessions/:id/leave and DELETE /api/sessions/:id of the main  *)
(* Express server, over the game_sessions / session_participants /          *)
(* user_profiles tables.  Every `await` of a handler is one atomic step;    *)
(* handlers of different requests interleave between their awaits.          *)
(* SpecLive starts from an active session, SpecFaulty lets the awaits of    *)
(* createSession throw, SpecCode runs generateSessionCode() on its own.     *)
(* The Socket.IO handlers (rooms, relays, chat, presence in redis) run     *)
(* from an active session with open connections: SpecChat has the room,    *)
(* relay and chat handlers, SpecRooms adds the join, leave and end routes, *)
(* SpecPresence has connection, authenticate, disconnect and the passing   *)
(* of time, SpecSocketFaulty lets the awaits of the socket handlers throw. *)
(* SpecList runs GET /api/sessions over a table of sessions.               *)
(***************************************************************************)
EXTENDS Integers, Sequences, FiniteSets, TLC

VARIABLES profiles, sessions, participants, playCount, emitted, proc,
          lastResponse, now, calls, callers, codeGen,
          sessionHistory, chatLog, sockets, rooms, inbox, task,
          online, userSocket, clock, listing

vars == <<profiles, sessions, participants, playCount, emitted, proc,
          lastResponse, now, calls, callers, codeGen,
          sessionHistory, chatLog, sockets, rooms, inbox, task,
          online, userSocket, clock, listing>>

(* the state of the Socket.IO side, which no REST handler writes (the
   deliveries of its io.to(room).emit aside, see Emit) *)
socketVars == <<chatLog, sockets, rooms, task, online, userSocket, clock>>

(* ---------------------------------------------------------------------- *)
(* Bounds of the model                                                     *)
(* ---------------------------------------------------------------------- *)
MaxCalls == 3
RandomGrid == 8
MaxTicks == 3
MaxRows == 22
MaxVaried == 1

UserOrder == <<"H", "A", "B">>
Users == {UserOrder[i] : i \in 1..Len(UserOrder)}
Procs == {"p1", "p2"}
(* req.body.maxPlayers is not validated: 1 is the default, 0 a value under
   which the capacity check rejects every player *)
MaxPlayersChoices == {0, 1}
Roles == {"PLAYER", "SPECTATOR"}

(* ---------------------------------------------------------------------- *)
(* Values of the schema and of the handlers' responses                     *)
(* ---------------------------------------------------------------------- *)
NULL == 0
UnknownId == 0
NoProfile == "undefined"
NoResult == "pending"

STARTING == "STARTING"
ACTIVE == "ACTIVE"
ENDING == "ENDING"
ENDED == "ENDED"

R_Created == "201 sessionId"
R_AlreadyActive == "400 You already have an active session"
R_CreateFailed == "500 Failed to create session"
R_Joined == "200 joined"
R_NotFoundOrNotActive == "404 Session not found or not active"
R_Full == "400 Session is full"
R_AlreadyPresent == "400 Already in this session"
R_JoinFailed == "500 Failed to join session"
R_Left == "200 left"
R_NoProfile == "404 User profile not found"
R_LeaveFailed == "500 Failed to leave session"
R_Ended == "200 ended"
R_SessionNotFound == "404 Session not found"
R_Forbidden == "403 Only the host can end the session"

(* ---------------------------------------------------------------------- *)
(* Store helpers                                                           *)
(* ---------------------------------------------------------------------- *)
Existing == 1..Len(sessions)

HasRow(s, u) == <<s, u>> \in DOMAIN participants

IsPresent(s, u) == HasRow(s, u) /\ participants[<<s, u>>].leftAt = NULL

HasLeft(s, u) == HasRow(s, u) /\ participants[<<s, u>>].leftAt # NULL

PresentPlayers(s) ==
  {u \in Users : IsPresent(s, u) /\ participants[<<s, u>>].role = "PLAYER"}

NewParticipant(role, isHost) ==
  [role |-> role, isHost |-> isHost, leftAt |-> NULL, totalDurationMinutes |-> 0]

InsertParticipant(s, u, row) ==
  [k \in DOMAIN participants \cup {<<s, u>>} |->
     IF k = <<s, u>> THEN row ELSE participants[k]]

NewSession(u, code, mp) ==
  [createdBy |-> u, sessionCode |-> code, status |-> STARTING,
   maxPlayers |-> mp, currentPlayers |-> 0, spectatorCount |-> 0,
   endedAt |-> NULL]

Idle ==
  [pc |-> "idle", op |-> "none", user |-> "H", sid |-> UnknownId, role |-> "PLAYER",
   maxPlayers |-> 0, userProfile |-> NoProfile,
   statusAtCall |-> "none", presentAtCall |-> FALSE, leftAtCall |-> FALSE]

(* the status of session s, "none" when there is no such session; a request
   slot records in statusAtCall, presentAtCall and leftAtCall what its
   request met when it arrived *)
StatusOf(s) == IF s \in Existing THEN sessions[s].status ELSE "none"

Free(p) == proc[p].pc = "idle"

(* a request is served in the first slot that has no handler running *)
Accepts(p) == Free(p) /\ (p = "p2" => ~Free("p1"))

(* users are interchangeable until their first request: the first user to
   call is named H, the next new one A, then B *)
MayCall(u) ==
  \/ u \in callers
  \/ /\ Cardinality(callers) < Len(UserOrder)
     /\ u = UserOrder[Cardinality(callers) + 1]

(* ids a client can name: those of the stored sessions, or one that names
   no session *)
SessionIds == Existing \cup {UnknownId}

(* generateSessionCode() draws at random; codes are only compared for
   equality, so a draw is either the code of a stored session or a code no
   session holds (the least such stands for all of them) *)
UsedCodes == {sessions[s].sessionCode : s \in Existing}

Codes == UsedCodes \cup {Len(sessions) + 1}

(* the handler goes on to its next await *)
Goto(p, pc) ==
  /\ proc' = [proc EXCEPT ![p].pc = pc]
  /\ UNCHANGED lastResponse

(* ... having read the caller's profile *)
GotoAs(p, pc, userProfile) ==
  /\ proc' = [proc EXCEPT ![p].pc = pc, ![p].userProfile = userProfile]
  /\ UNCHANGED lastResponse

(* the handler answers its request and ends; lastResponse keeps the answer
   with the caller and the session id of the request *)
Respond(p, r) ==
  /\ proc' = [proc EXCEPT ![p] = Idle]
  /\ lastResponse' = [result |-> r, user |-> proc[p].user, sid |-> proc[p].sid]

(* connections of the Socket.IO server; a socket's userId is undefined
   until its authenticate handler has set it *)
Conns == {"s1", "s2", "s3"}

(* the sockets in room `session:${r}` *)
Members(r) == {c \in Conns : <<r, c>> \in rooms}

(* emit to every connection instead of the room *)
EveryConnection(r) == Conns

(* io.to(`session:${r}`): the sockets that are in the room when it emits *)
RoomRecipients(r) == Members(r)

(* the event is appended to what each recipient has received *)
Deliver(recipients, ev) ==
  inbox' = [c \in Conns |-> IF c \in recipients THEN Append(inbox[c], ev) ELSE inbox[c]]

(* io.to(`session:${s}`).emit(ev, ...) of a REST handler; emitted logs the
   emissions whether or not a socket is in the room *)
Emit(ev, s, u) ==
  /\ emitted' = Append(emitted, [event |-> ev, room |-> s, userId |-> u])
  /\ Deliver(RoomRecipients(s), [event |-> ev, room |-> s, from |-> "server", body |-> u])

(* generateSessionCode() has not been called: no loop counter, no result *)
NotCalled == [pc |-> "none", i |-> 0, result |-> <<>>]

(* the query parameter gameId of GET /api/sessions when it is not given *)
NoGame == "undefined"

(* GET /api/sessions has not been called; table is the game_sessions table
   as the listing reads it *)
NotListed == [table |-> <<>>, called |-> FALSE, gameId |-> NoGame, sessions |-> <<>>]

(* a socket's in-flight handler: none *)
NoTask == [pc |-> "idle", room |-> UnknownId, message |-> 0, user |-> NoProfile]

(* hardClosedAt of a socket that was not cut off by a crash of the server *)
Never == -1

(* a socket no client is connected on *)
NoSocket == [connected |-> FALSE, userId |-> NoProfile, closing |-> "none",
             hardClosedAt |-> Never]

(* the server has just started: no client is connected, no chat message
   stored *)
NoSockets ==
  /\ chatLog = <<>>
  /\ sockets = [c \in Conns |-> NoSocket]
  /\ rooms = {}
  /\ inbox = [c \in Conns |-> <<>>]
  /\ task = [c \in Conns |-> NoTask]
  /\ online = {}
  /\ userSocket = <<>>
  /\ clock = 0

Init ==
  /\ profiles = {}
  /\ sessions = <<>>
  /\ participants = <<>>
  /\ playCount = 0
  /\ emitted = <<>>
  /\ proc = [p \in Procs |-> Idle]
  /\ lastResponse = [result |-> NoResult, user |-> "H", sid |-> UnknownId]
  /\ now = 0
  /\ callers = {}
  /\ calls = 0
  /\ codeGen = NotCalled
  /\ sessionHistory = {}
  /\ listing = NotListed
  /\ NoSockets

(* ---------------------------------------------------------------------- *)
(* POST /api/sessions  (createSession)                                     *)
(* ---------------------------------------------------------------------- *)
CallCreateSession(p, u, mp) ==
  /\ Accepts(p)
  /\ calls < MaxCalls
  /\ MayCall(u)
  /\ calls' = calls + 1
  /\ callers' = callers \cup {u}
  /\ now' = now + 1
  /\ proc' = [proc EXCEPT ![p] =
       [Idle EXCEPT !.pc = "c_findProfile", !.op = "create", !.user = u,
                    !.maxPlayers = mp]]
  /\ UNCHANGED <<profiles, sessions, participants, playCount, emitted, lastResponse>>
  /\ UNCHANGED <<codeGen, sessionHistory, listing, socketVars, inbox>>

(* prisma.userProfile.findUnique({ platiumUserId }) *)
CreateFindProfile(p) ==
  /\ proc[p].pc = "c_findProfile"
  /\ IF proc[p].user \in profiles
       THEN GotoAs(p, "c_findExisting", proc[p].user)
       ELSE Goto(p, "c_createProfile")
  /\ UNCHANGED <<profiles, sessions, participants, playCount, emitted, now, calls, callers>>
  /\ UNCHANGED <<codeGen, sessionHistory, listing, socketVars, inbox>>

(* user_profiles without the unique index on platium_user_id *)
ExternalIdNeverTaken(u) == FALSE

(* CREATE UNIQUE INDEX "user_profiles_platium_user_id_key" *)
ExternalIdTaken(u) == u \in profiles

(* prisma.userProfile.create: the unique index on platium_user_id rejects a
   second profile for the same external id, the handler answers 500 *)
CreateCreateProfile(p) ==
  /\ proc[p].pc = "c_createProfile"
  /\ IF ExternalIdTaken(proc[p].user)
       THEN /\ Respond(p, R_CreateFailed)
            /\ UNCHANGED profiles
       ELSE /\ profiles' = profiles \cup {proc[p].user}
            /\ GotoAs(p, "c_findExisting", proc[p].user)
  /\ UNCHANGED <<sessions, participants, playCount, emitted, now, calls, callers>>
  /\ UNCHANGED <<codeGen, sessionHistory, listing, socketVars, inbox>>

OwnsLiveSession(u) ==
  \E s \in Existing : /\ sessions[s].createdBy = u
                      /\ sessions[s].status \in {STARTING, ACTIVE}

(* prisma.gameSession.findFirst({ createdBy, status in [STARTING, ACTIVE] }) *)
CreateFindExisting(p) ==
  /\ proc[p].pc = "c_findExisting"
  /\ IF OwnsLiveSession(proc[p].userProfile)
       THEN Respond(p, R_AlreadyActive)
       ELSE Goto(p, "c_tx")
  /\ UNCHANGED <<profiles, sessions, participants, playCount, emitted, now, calls, callers>>
  /\ UNCHANGED <<codeGen, sessionHistory, listing, socketVars, inbox>>

(* game_sessions without the unique index on session_code *)
CodeNeverTaken(code) == FALSE

(* CREATE UNIQUE INDEX "game_sessions_session_code_key" *)
CodeTaken(code) == code \in UsedCodes

(* the session row inserted without the creator's participant row *)
CreateTxWithoutHost(p, code) ==
  /\ proc[p].pc = "c_tx"
  /\ code \in Codes
  /\ IF CodeTaken(code)
       THEN /\ Respond(p, R_CreateFailed)
            /\ UNCHANGED sessions
       ELSE /\ sessions' = Append(sessions,
                 NewSession(proc[p].userProfile, code, proc[p].maxPlayers))
            /\ proc' = [proc EXCEPT ![p].pc = "c_activate",
                                    ![p].sid = Len(sessions) + 1]
            /\ UNCHANGED lastResponse
  /\ UNCHANGED <<profiles, participants, playCount, emitted, now, calls, callers>>
  /\ UNCHANGED <<codeGen, sessionHistory, listing, socketVars, inbox>>

(* generateSessionCode() followed by the transaction that inserts the
   session row (STARTING) and the creator's participant row; the unique
   index on session_code rolls the transaction back on a collision *)
CreateTx(p, code) ==
  /\ proc[p].pc = "c_tx"
  /\ code \in Codes
  /\ IF CodeTaken(code)
       THEN /\ Respond(p, R_CreateFailed)
            /\ UNCHANGED <<sessions, participants>>
       ELSE /\ sessions' = Append(sessions,
                 NewSession(proc[p].userProfile, code, proc[p].maxPlayers))
            /\ participants' = InsertParticipant(Len(sessions) + 1,
                 proc[p].userProfile, NewParticipant("PLAYER", TRUE))
            /\ proc' = [proc EXCEPT ![p].pc = "c_activate",
                                    ![p].sid = Len(sessions) + 1]
            /\ UNCHANGED lastResponse
  /\ UNCHANGED <<profiles, playCount, emitted, now, calls, callers>>
  /\ UNCHANGED <<codeGen, sessionHistory, listing, socketVars, inbox>>

(* prisma.gameSession.update({ where: { id }, data: { status: 'ACTIVE' } }) *)
CreateActivate(p) ==
  /\ proc[p].pc = "c_activate"
  /\ sessions' = [sessions EXCEPT ![proc[p].sid].status = ACTIVE]
  /\ Goto(p, "c_playCount")
  /\ UNCHANGED <<profiles, participants, playCount, emitted, now, calls, callers>>
  /\ UNCHANGED <<codeGen, sessionHistory, listing, socketVars, inbox>>

(* prisma.game.update({ playCount: { increment: 1 } }) *)
CreatePlayCount(p) ==
  /\ proc[p].pc = "c_playCount"
  /\ playCount' = playCount + 1
  /\ Goto(p, "c_publish")
  /\ UNCHANGED <<profiles, sessions, participants, emitted, now, calls, callers>>
  /\ UNCHANGED <<codeGen, sessionHistory, listing, socketVars, inbox>>

(* redis.publish('session_updates', session_created), then 201 *)
CreatePublish(p) ==
  /\ proc[p].pc = "c_publish"
  /\ Respond(p, R_Created)
  /\ UNCHANGED <<profiles, sessions, participants, playCount, emitted, now, calls, callers>>
  /\ UNCHANGED <<codeGen, sessionHistory, listing, socketVars, inbox>>

(* ---------------------------------------------------------------------- *)
(* POST /api/sessions/:id/join  (joinSession)                              *)
(* ---------------------------------------------------------------------- *)
CallJoinSession(p, u, s, role) ==
  /\ Accepts(p)
  /\ calls < MaxCalls
  /\ MayCall(u)
  /\ s \in SessionIds
  /\ calls' = calls + 1
  /\ callers' = callers \cup {u}
  /\ now' = now + 1
  /\ proc' = [proc EXCEPT ![p] =
       [Idle EXCEPT !.pc = "j_findProfile", !.op = "join", !.user = u,
                    !.sid = s, !.role = role,
                    !.statusAtCall = StatusOf(s), !.presentAtCall = IsPresent(s, u),
                    !.leftAtCall = HasLeft(s, u)]]
  /\ UNCHANGED <<profiles, sessions, participants, playCount, emitted, lastResponse>>
  /\ UNCHANGED <<codeGen, sessionHistory, listing, socketVars, inbox>>

JoinFindProfile(p) ==
  /\ proc[p].pc = "j_findProfile"
  /\ IF proc[p].user \in profiles
       THEN GotoAs(p, "j_findSession", proc[p].user)
       ELSE Goto(p, "j_createProfile")
  /\ UNCHANGED <<profiles, sessions, participants, playCount, emitted, now, calls, callers>>
  /\ UNCHANGED <<codeGen, sessionHistory, listing, socketVars, inbox>>

JoinCreateProfile(p) ==
  /\ proc[p].pc = "j_createProfile"
  /\ IF ExternalIdTaken(proc[p].user)
       THEN /\ Respond(p, R_JoinFailed)
            /\ UNCHANGED profiles
       ELSE /\ profiles' = profiles \cup {proc[p].user}
            /\ GotoAs(p, "j_findSession", proc[p].user)
  /\ UNCHANGED <<sessions, participants, playCount, emitted, now, calls, callers>>
  /\ UNCHANGED <<codeGen, sessionHistory, listing, socketVars, inbox>>

(* !session || session.status !== 'ACTIVE' *)
NotJoinable(s) == s \notin Existing \/ sessions[s].status # ACTIVE

(* session.currentPlayers >= session.maxPlayers && role === 'PLAYER' *)
SessionFull(session, role) ==
  session.currentPlayers >= session.maxPlayers /\ role = "PLAYER"

(* prisma.gameSession.findUnique({ id }) and the two checks on its result *)
JoinFindSession(p) ==
  /\ proc[p].pc = "j_findSession"
  /\ IF NotJoinable(proc[p].sid)
       THEN Respond(p, R_NotFoundOrNotActive)
       ELSE IF SessionFull(sessions[proc[p].sid], proc[p].role)
              THEN Respond(p, R_Full)
              ELSE Goto(p, "j_findParticipant")
  /\ UNCHANGED <<profiles, sessions, participants, playCount, emitted, now, calls, callers>>
  /\ UNCHANGED <<codeGen, sessionHistory, listing, socketVars, inbox>>

(* the leftAt test inverted *)
AlreadyInSessionInverted(s, u) == HasRow(s, u) /\ participants[<<s, u>>].leftAt # NULL

(* existingParticipant && !existingParticipant.leftAt *)
AlreadyInSession(s, u) == HasRow(s, u) /\ participants[<<s, u>>].leftAt = NULL

(* prisma.sessionParticipant.findUnique({ sessionId_userId }) *)
JoinFindParticipant(p) ==
  /\ proc[p].pc = "j_findParticipant"
  /\ IF AlreadyInSession(proc[p].sid, proc[p].userProfile)
       THEN Respond(p, R_AlreadyPresent)
       ELSE Goto(p, "j_create")
  /\ UNCHANGED <<profiles, sessions, participants, playCount, emitted, now, calls, callers>>
  /\ UNCHANGED <<codeGen, sessionHistory, listing, socketVars, inbox>>

(* session_participants without its primary key *)
NoPrimaryKey(s, u) == FALSE

(* CONSTRAINT session_participants_pkey PRIMARY KEY (session_id, user_id) *)
ViolatesPrimaryKey(s, u) == HasRow(s, u)

(* prisma.sessionParticipant.create: the primary key (session_id, user_id)
   rejects a second row for the pair, the handler answers 500; otherwise the
   row is inserted and user_joined goes to the room *)
JoinCreate(p) ==
  /\ proc[p].pc = "j_create"
  /\ IF ViolatesPrimaryKey(proc[p].sid, proc[p].userProfile)
       THEN /\ Respond(p, R_JoinFailed)
            /\ UNCHANGED <<participants, emitted, inbox>>
       ELSE /\ participants' = InsertParticipant(proc[p].sid, proc[p].userProfile,
                                 NewParticipant(proc[p].role, FALSE))
            /\ Emit("user_joined", proc[p].sid, proc[p].userProfile)
            /\ Respond(p, R_Joined)
  /\ UNCHANGED <<profiles, sessions, playCount, now, calls, callers>>
  /\ UNCHANGED <<codeGen, sessionHistory, listing, socketVars>>

(* ---------------------------------------------------------------------- *)
(* DELETE /api/sessions/:id/leave  (leaveSession)                          *)
(* ---------------------------------------------------------------------- *)
CallLeaveSession(p, u, s) ==
  /\ Accepts(p)
  /\ calls < MaxCalls
  /\ MayCall(u)
  /\ s \in SessionIds
  /\ calls' = calls + 1
  /\ callers' = callers \cup {u}
  /\ now' = now + 1
  /\ proc' = [proc EXCEPT ![p] =
       [Idle EXCEPT !.pc = "l_findProfile", !.op = "leave", !.user = u, !.sid = s,
                    !.statusAtCall = StatusOf(s), !.presentAtCall = IsPresent(s, u),
                    !.leftAtCall = HasLeft(s, u)]]
  /\ UNCHANGED <<profiles, sessions, participants, playCount, emitted, lastResponse>>
  /\ UNCHANGED <<codeGen, sessionHistory, listing, socketVars, inbox>>

LeaveFindProfile(p) ==
  /\ proc[p].pc = "l_findProfile"
  /\ IF proc[p].user \in profiles
       THEN GotoAs(p, "l_update", proc[p].user)
       ELSE Respond(p, R_NoProfile)
  /\ UNCHANGED <<profiles, sessions, participants, playCount, emitted, now, calls, callers>>
  /\ UNCHANGED <<codeGen, sessionHistory, listing, socketVars, inbox>>

(* prisma.sessionParticipant.update({ sessionId_userId }, { leftAt: new Date() })
   throws when the row does not exist (500); otherwise user_left goes to the room *)
LeaveUpdate(p) ==
  /\ proc[p].pc = "l_update"
  /\ IF HasRow(proc[p].sid, proc[p].userProfile)
       THEN /\ participants' =
                 [participants EXCEPT ![<<proc[p].sid, proc[p].userProfile>>].leftAt = now]
            /\ Emit("user_left", proc[p].sid, proc[p].userProfile)
            /\ Respond(p, R_Left)
       ELSE /\ Respond(p, R_LeaveFailed)
            /\ UNCHANGED <<participants, emitted, inbox>>
  /\ UNCHANGED <<profiles, sessions, playCount, now, calls, callers>>
  /\ UNCHANGED <<codeGen, sessionHistory, listing, socketVars>>

(* ---------------------------------------------------------------------- *)
(* DELETE /api/sessions/:id  (endSession)                                  *)
(* ---------------------------------------------------------------------- *)
CallEndSession(p, u, s) ==
  /\ Accepts(p)
  /\ calls < MaxCalls
  /\ MayCall(u)
  /\ s \in SessionIds
  /\ calls' = calls + 1
  /\ callers' = callers \cup {u}
  /\ now' = now + 1
  /\ proc' = [proc EXCEPT ![p] =
       [Idle EXCEPT !.pc = "e_findProfile", !.op = "end", !.user = u, !.sid = s,
                    !.statusAtCall = StatusOf(s), !.presentAtCall = IsPresent(s, u),
                    !.leftAtCall = HasLeft(s, u)]]
  /\ UNCHANGED <<profiles, sessions, participants, playCount, emitted, lastResponse>>
  /\ UNCHANGED <<codeGen, sessionHistory, listing, socketVars, inbox>>

(* userProfile stays undefined when the requester has no profile *)
EndFindProfile(p) ==
  /\ proc[p].pc = "e_findProfile"
  /\ GotoAs(p, "e_findSession",
            IF proc[p].user \in profiles THEN proc[p].user ELSE NoProfile)
  /\ UNCHANGED <<profiles, sessions, participants, playCount, emitted, now, calls, callers>>
  /\ UNCHANGED <<codeGen, sessionHistory, listing, socketVars, inbox>>

(* the ownership check left out *)
LaxNotHost(session, userProfile) == FALSE

(* the ownership check inverted *)
NotHostInverted(session, userProfile) == session.createdBy = userProfile

(* session.createdBy !== userProfile?.id *)
NotHost(session, userProfile) == session.createdBy # userProfile

EndFindSession(p) ==
  /\ proc[p].pc = "e_findSession"
  /\ IF proc[p].sid \notin Existing
       THEN Respond(p, R_SessionNotFound)
       ELSE IF NotHost(sessions[proc[p].sid], proc[p].userProfile)
              THEN Respond(p, R_Forbidden)
              ELSE Goto(p, "e_ending")
  /\ UNCHANGED <<profiles, sessions, participants, playCount, emitted, now, calls, callers>>
  /\ UNCHANGED <<codeGen, sessionHistory, listing, socketVars, inbox>>

(* update({ status: 'ENDING', endedAt: new Date() }) *)
EndEnding(p) ==
  /\ proc[p].pc = "e_ending"
  /\ sessions' = [sessions EXCEPT ![proc[p].sid].status = ENDING,
                                  ![proc[p].sid].endedAt = now]
  /\ Goto(p, "e_markLeft")
  /\ UNCHANGED <<profiles, participants, playCount, emitted, now, calls, callers>>
  /\ UNCHANGED <<codeGen, sessionHistory, listing, socketVars, inbox>>

(* updateMany({ sessionId, leftAt: null }, { leftAt: new Date() }) *)
EndMarkLeft(p) ==
  /\ proc[p].pc = "e_markLeft"
  /\ participants' =
       [k \in DOMAIN participants |->
          IF k[1] = proc[p].sid /\ participants[k].leftAt = NULL
            THEN [participants[k] EXCEPT !.leftAt = now]
            ELSE participants[k]]
  /\ Goto(p, "e_ended")
  /\ UNCHANGED <<profiles, sessions, playCount, emitted, now, calls, callers>>
  /\ UNCHANGED <<codeGen, sessionHistory, listing, socketVars, inbox>>

(* update({ status: 'ENDED' }), then session_ended goes to the room *)
EndEnded(p) ==
  /\ proc[p].pc = "e_ended"
  /\ sessions' = [sessions EXCEPT ![proc[p].sid].status = ENDED]
  /\ Emit("session_ended", proc[p].sid, NoProfile)
  /\ Respond(p, R_Ended)
  /\ UNCHANGED <<profiles, participants, playCount, now, calls, callers>>
  /\ UNCHANGED <<codeGen, sessionHistory, listing, socketVars>>

(* ---------------------------------------------------------------------- *)
(* Specification                                                           *)
(* ---------------------------------------------------------------------- *)
Next ==
  \/ \E p \in Procs, u \in Users, mp \in MaxPlayersChoices : CallCreateSession(p, u, mp)
  \/ \E p \in Procs : CreateFindProfile(p)
  \/ \E p \in Procs : CreateCreateProfile(p)
  \/ \E p \in Procs : CreateFindExisting(p)
  \/ \E p \in Procs, code \in 1..MaxCalls : CreateTx(p, code)
  \/ \E p \in Procs : CreateActivate(p)
  \/ \E p \in Procs : CreatePlayCount(p)
  \/ \E p \in Procs : CreatePublish(p)
  \/ \E p \in Procs, u \in Users, s \in UnknownId..MaxCalls, role \in Roles : CallJoinSession(p, u, s, role)
  \/ \E p \in Procs : JoinFindProfile(p)
  \/ \E p \in Procs : JoinCreateProfile(p)
  \/ \E p \in Procs : JoinFindSession(p)
  \/ \E p \in Procs : JoinFindParticipant(p)
  \/ \E p \in Procs : JoinCreate(p)
  \/ \E p \in Procs, u \in Users, s \in UnknownId..MaxCalls : CallLeaveSession(p, u, s)
  \/ \E p \in Procs : LeaveFindProfile(p)
  \/ \E p \in Procs : LeaveUpdate(p)
  \/ \E p \in Procs, u \in Users, s \in UnknownId..MaxCalls : CallEndSession(p, u, s)
  \/ \E p \in Procs : EndFindProfile(p)
  \/ \E p \in Procs : EndFindSession(p)
  \/ \E p \in Procs : EndEnding(p)
  \/ \E p \in Procs : EndMarkLeft(p)
  \/ \E p \in Procs : EndEnded(p)

Spec == Init /\ [][Next]_vars

(* the state in which H's POST /api/sessions { maxPlayers: 1 } has been
   answered 201 and nothing else has happened: the requests counted from
   here meet a session that is already active *)
InitLive ==
  /\ profiles = {"H"}
  /\ sessions = <<[NewSession("H", 1, 1) EXCEPT !.status = ACTIVE]>>
  /\ participants = (<<1, "H">> :> NewParticipant("PLAYER", TRUE))
  /\ playCount = 1
  /\ emitted = <<>>
  /\ proc = [p \in Procs |-> Idle]
  /\ lastResponse = [result |-> R_Created, user |-> "H", sid |-> 1]
  /\ now = 1
  /\ callers = {"H"}
  /\ calls = 0
  /\ codeGen = NotCalled
  /\ sessionHistory = {}
  /\ listing = NotListed
  /\ NoSockets

SpecLive == InitLive /\ [][Next]_vars

(* ---------------------------------------------------------------------- *)
(* createSession with failing collaborators: each await after the           *)
(* transaction may throw (store unreachable, redis unreachable), the catch  *)
(* of the handler answers 500 and undoes nothing                            *)
(* ---------------------------------------------------------------------- *)
CreateActivateFails(p) ==
  /\ proc[p].pc = "c_activate"
  /\ Respond(p, R_CreateFailed)
  /\ UNCHANGED <<profiles, sessions, participants, playCount, emitted, now, calls, callers>>
  /\ UNCHANGED <<codeGen, sessionHistory, listing, socketVars, inbox>>

CreatePlayCountFails(p) ==
  /\ proc[p].pc = "c_playCount"
  /\ Respond(p, R_CreateFailed)
  /\ UNCHANGED <<profiles, sessions, participants, playCount, emitted, now, calls, callers>>
  /\ UNCHANGED <<codeGen, sessionHistory, listing, socketVars, inbox>>

CreatePublishFails(p) ==
  /\ proc[p].pc = "c_publish"
  /\ Respond(p, R_CreateFailed)
  /\ UNCHANGED <<profiles, sessions, participants, playCount, emitted, now, calls, callers>>
  /\ UNCHANGED <<codeGen, sessionHistory, listing, socketVars, inbox>>

NextFaulty ==
  \/ Next
  \/ \E p \in Procs : CreateActivateFails(p)
  \/ \E p \in Procs : CreatePlayCountFails(p)
  \/ \E p \in Procs : CreatePublishFails(p)

SpecFaulty == Init /\ [][NextFaulty]_vars

(* ---------------------------------------------------------------------- *)
(* generateSessionCode(): the loop that builds a join code character by     *)
(* character.  Math.random() is sampled at the multiples of 1/RandomGrid    *)
(* in [0, 1)                                                                *)
(* ---------------------------------------------------------------------- *)
CodeLength == 6

(* the alphabet with L left in *)
SessionCodeCharsWithL ==
  <<"A", "B", "C", "D", "E", "F", "G", "H", "J", "K", "L", "M", "N", "P", "Q", "R",
    "S", "T", "U", "V", "W", "X", "Y", "Z", "2", "3", "4", "5", "6", "7", "8", "9">>

(* const chars = 'ABCDEFGHJKMNPQRSTUVWXYZ23456789' *)
SessionCodeChars ==
  <<"A", "B", "C", "D", "E", "F", "G", "H", "J", "K", "M", "N", "P", "Q", "R",
    "S", "T", "U", "V", "W", "X", "Y", "Z", "2", "3", "4", "5", "6", "7", "8", "9">>

(* Math.floor(Math.random() * chars.length), for Math.random() = k / RandomGrid *)
RandomIndex(k) == (k * Len(SessionCodeChars)) \div RandomGrid

(* chars[index]: JavaScript indexes the string from 0 *)
CharAt(index) == SessionCodeChars[index + 1]

(* let result = ''; and the loop counter set to 0 *)
GenerateSessionCode ==
  /\ codeGen.pc \in {"none", "returned"}
  /\ codeGen' = [pc |-> "loop", i |-> 0, result |-> <<>>]
  /\ UNCHANGED <<profiles, sessions, participants, playCount, emitted, proc,
                 lastResponse, now, calls, callers>>
  /\ UNCHANGED <<sessionHistory, listing, socketVars, inbox>>

(* one iteration: result += chars[Math.floor(Math.random() * chars.length)] *)
GenerateLoop(k) ==
  /\ codeGen.pc = "loop"
  /\ codeGen.i < CodeLength
  /\ codeGen' = [codeGen EXCEPT !.i = @ + 1,
                                !.result = Append(@, CharAt(RandomIndex(k)))]
  /\ UNCHANGED <<profiles, sessions, participants, playCount, emitted, proc,
                 lastResponse, now, calls, callers>>
  /\ UNCHANGED <<sessionHistory, listing, socketVars, inbox>>

(* the loop condition fails: return result *)
GenerateReturn ==
  /\ codeGen.pc = "loop"
  /\ ~(codeGen.i < CodeLength)
  /\ codeGen' = [codeGen EXCEPT !.pc = "returned"]
  /\ UNCHANGED <<profiles, sessions, participants, playCount, emitted, proc,
                 lastResponse, now, calls, callers>>
  /\ UNCHANGED <<sessionHistory, listing, socketVars, inbox>>

NextCode ==
  \/ GenerateSessionCode
  \/ \E k \in 0..(RandomGrid - 1) : GenerateLoop(k)
  \/ GenerateReturn

SpecCode == Init /\ [][NextCode]_vars

(* ---------------------------------------------------------------------- *)
(* Socket.IO: connections, rooms, relays, chat and presence.  A client's    *)
(* event counts as a request (calls); the synchronous handlers are one      *)
(* step, the async ones one step per await.  The insert of a chat message   *)
(* and the resumption of its handler are two steps: the row is committed    *)
(* by the store, the handler resumes in a later turn of the event loop.     *)
(* ---------------------------------------------------------------------- *)
RelayEvents == {"player_input", "webrtc_offer", "webrtc_answer", "webrtc_ice_candidate"}

SocketTtl == 3600

(* time passes in steps of half a TTL window *)
TickSeconds == SocketTtl \div 2

restVars == <<profiles, sessions, participants, playCount, emitted, proc,
              lastResponse, now, codeGen, sessionHistory, listing>>

Connected == {c \in Conns : sockets[c].connected}

(* the event sent with io.emit instead *)
DeliverToAll(c, ev) == Deliver(Connected, ev)

(* the event is sent to one socket: socket.emit; a closed socket gets nothing *)
DeliverTo(c, ev) == Deliver({c} \cap Connected, ev)

(* io.on('connection') *)
Connect(c) ==
  /\ ~sockets[c].connected
  /\ sockets[c].closing = "none"
  /\ task[c] = NoTask
  /\ calls < MaxCalls
  /\ calls' = calls + 1
  /\ sockets' = [sockets EXCEPT ![c] = [NoSocket EXCEPT !.connected = TRUE]]
  /\ UNCHANGED <<restVars, callers, chatLog, rooms, inbox, task, online, userSocket, clock>>

(* socket.on('authenticate'): the token is that of user u, or one the
   auth service rejects (u = NoProfile) *)
Authenticate(c, u) ==
  /\ sockets[c].connected
  /\ task[c] = NoTask
  /\ calls < MaxCalls
  /\ u = NoProfile \/ MayCall(u)
  /\ calls' = calls + 1
  /\ callers' = IF u = NoProfile THEN callers ELSE callers \cup {u}
  /\ task' = [task EXCEPT ![c] = [NoTask EXCEPT !.pc = "a_validate", !.user = u]]
  /\ UNCHANGED <<restVars, chatLog, sockets, rooms, inbox, online, userSocket, clock>>

(* await fetch(/auth/validate): !response.ok emits authentication_error;
   otherwise socket.userId = user.id *)
AuthValidate(c) ==
  /\ task[c].pc = "a_validate"
  /\ IF task[c].user = NoProfile
       THEN /\ DeliverTo(c, [event |-> "authentication_error", room |-> UnknownId,
                             from |-> "server", body |-> NoProfile])
            /\ task' = [task EXCEPT ![c] = NoTask]
            /\ UNCHANGED sockets
       ELSE /\ sockets' = [sockets EXCEPT ![c].userId = task[c].user]
            /\ task' = [task EXCEPT ![c].pc = "a_sadd"]
            /\ UNCHANGED inbox
  /\ UNCHANGED <<restVars, calls, callers, chatLog, rooms, online, userSocket, clock>>

(* await redis.sadd('online_users', user.id) *)
AuthSadd(c) ==
  /\ task[c].pc = "a_sadd"
  /\ online' = online \cup {task[c].user}
  /\ task' = [task EXCEPT ![c].pc = "a_setex"]
  /\ UNCHANGED <<restVars, calls, callers, chatLog, sockets, rooms, inbox, userSocket, clock>>

SetKey(u, value) ==
  [k \in DOMAIN userSocket \cup {u} |-> IF k = u THEN value ELSE userSocket[k]]

DelKey(u) == [k \in DOMAIN userSocket \ {u} |-> userSocket[k]]

(* await redis.setex(`user_socket:${user.id}`, 3600, socket.id), then
   io.emit('user_online') and socket.emit('authenticated') *)
AuthSetex(c) ==
  /\ task[c].pc = "a_setex"
  /\ userSocket' = SetKey(task[c].user, [socket |-> c, expires |-> clock + SocketTtl])
  /\ inbox' = [d \in Conns |->
       IF d \notin Connected THEN inbox[d]
       ELSE LET seen == Append(inbox[d], [event |-> "user_online", room |-> UnknownId,
                                         from |-> "server", body |-> task[c].user])
            IN  IF d = c
                  THEN Append(seen, [event |-> "authenticated", room |-> UnknownId,
                                     from |-> "server", body |-> task[c].user])
                  ELSE seen]
  /\ task' = [task EXCEPT ![c] = NoTask]
  /\ UNCHANGED <<restVars, calls, callers, chatLog, sockets, rooms, online, clock>>

(* the socket closes: Socket.IO takes it out of its rooms, then runs
   socket.on('disconnect'), whose awaits follow if (socket.userId) *)
SocketDisconnect(c) ==
  /\ sockets[c].connected
  /\ calls < MaxCalls
  /\ calls' = calls + 1
  /\ sockets' = [sockets EXCEPT ![c].connected = FALSE,
                                ![c].closing = IF sockets[c].userId = NoProfile
                                                 THEN "none" ELSE "d_srem"]
  /\ rooms' = {m \in rooms : m[2] # c}
  /\ UNCHANGED <<restVars, callers, chatLog, inbox, task, online, userSocket, clock>>

(* await redis.srem('online_users', socket.userId) *)
DisconnectSrem(c) ==
  /\ sockets[c].closing = "d_srem"
  /\ online' = online \ {sockets[c].userId}
  /\ sockets' = [sockets EXCEPT ![c].closing = "d_del"]
  /\ UNCHANGED <<restVars, calls, callers, chatLog, rooms, inbox, task, userSocket, clock>>

(* await redis.del(`user_socket:${socket.userId}`), then io.emit('user_offline') *)
DisconnectDel(c) ==
  /\ sockets[c].closing = "d_del"
  /\ userSocket' = DelKey(sockets[c].userId)
  /\ Deliver(Connected, [event |-> "user_offline", room |-> UnknownId,
                         from |-> "server", body |-> sockets[c].userId])
  /\ sockets' = [sockets EXCEPT ![c].closing = "none"]
  /\ UNCHANGED <<restVars, calls, callers, chatLog, rooms, task, online, clock>>

(* the server process is killed and started again: every connection is
   gone without its disconnect handler having run, every handler in flight
   is gone with it; the store and redis keep what they hold *)
ProcessExit ==
  /\ sockets' = [c \in Conns |->
       IF sockets[c].connected
         THEN [sockets[c] EXCEPT !.connected = FALSE, !.closing = "none",
                                 !.hardClosedAt = clock]
         ELSE [sockets[c] EXCEPT !.closing = "none"]]
  /\ rooms' = {}
  /\ task' = [c \in Conns |-> NoTask]
  /\ proc' = [p \in Procs |-> Idle]
  /\ UNCHANGED <<profiles, sessions, participants, playCount, emitted, lastResponse,
                 now, codeGen, sessionHistory, listing, callers, chatLog, inbox, online,
                 userSocket, clock>>

ServerCrash ==
  /\ Connected # {}
  /\ calls < MaxCalls
  /\ calls' = calls + 1
  /\ ProcessExit

(* half a TTL window passes; redis drops the keys whose time has come *)
Tick ==
  /\ clock < MaxTicks * TickSeconds
  /\ clock' = clock + TickSeconds
  /\ userSocket' = [k \in {u \in DOMAIN userSocket : userSocket[u].expires > clock'}
                      |-> userSocket[k]]
  /\ UNCHANGED <<restVars, calls, callers, chatLog, sockets, rooms, inbox, task, online>>

(* socket.on('join_session_room'): socket.join(`session:${sessionId}`), for
   whatever id the client names *)
JoinSessionRoom(c, r) ==
  /\ sockets[c].connected
  /\ task[c] = NoTask
  /\ calls < MaxCalls
  /\ r \in SessionIds
  /\ calls' = calls + 1
  /\ rooms' = rooms \cup {<<r, c>>}
  /\ task' = [task EXCEPT ![c] = [NoTask EXCEPT !.pc = "r_find", !.room = r]]
  /\ UNCHANGED <<restVars, callers, chatLog, sockets, inbox, online, userSocket, clock>>

(* await prisma.gameSession.findUnique({ include participants where leftAt
   null }), then socket.emit('session_participants', session?.participants || []) *)
JoinRoomSnapshot(c) ==
  /\ task[c].pc = "r_find"
  /\ DeliverTo(c, [event |-> "session_participants", room |-> task[c].room,
                   from |-> "server",
                   body |-> {u \in Users : IsPresent(task[c].room, u)}])
  /\ task' = [task EXCEPT ![c] = NoTask]
  /\ UNCHANGED <<restVars, calls, callers, chatLog, sockets, rooms, online, userSocket, clock>>

(* socket.on('leave_session_room'): socket.leave(`session:${sessionId}`) *)
LeaveSessionRoom(c, r) ==
  /\ sockets[c].connected
  /\ calls < MaxCalls
  /\ r \in SessionIds
  /\ calls' = calls + 1
  /\ rooms' = rooms \ {<<r, c>>}
  /\ UNCHANGED <<restVars, callers, chatLog, sockets, inbox, task, online, userSocket, clock>>

(* the sender included *)
WholeRoom(c, r) == Members(r)

(* socket.to(`session:${r}`): the sockets in the room, except the sender *)
RelayRecipients(c, r) == Members(r) \ {c}

(* socket.on('game_input' / 'webrtc_offer' / 'webrtc_answer' /
   'webrtc_ice_candidate'): socket.to(room).emit(...) *)
Relay(c, r, ev) ==
  /\ sockets[c].connected
  /\ calls < MaxCalls
  /\ r \in SessionIds
  /\ calls' = calls + 1
  /\ Deliver(RelayRecipients(c, r),
             [event |-> ev, room |-> r, from |-> c, body |-> sockets[c].userId])
  /\ UNCHANGED <<restVars, callers, chatLog, sockets, rooms, task, online, userSocket, clock>>

(* socket.on('send_message'): if (!socket.userId) return; the message is
   numbered by the request that carries it *)
SendMessage(c, r) ==
  /\ sockets[c].connected
  /\ task[c] = NoTask
  /\ calls < MaxCalls
  /\ r \in SessionIds
  /\ calls' = calls + 1
  /\ task' = IF sockets[c].userId = NoProfile
               THEN task
               ELSE [task EXCEPT ![c] = [pc |-> "m_create", room |-> r,
                                         message |-> calls + 1,
                                         user |-> sockets[c].userId]]
  /\ UNCHANGED <<restVars, callers, chatLog, sockets, rooms, inbox, online, userSocket, clock>>

(* session_chat_session_id_fkey, session_chat_user_id_fkey *)
ChatForeignKeysHold(r, u) == r \in Existing /\ u \in profiles

(* prisma.sessionChat.create commits the row *)
SendPersist(c) ==
  /\ task[c].pc = "m_create"
  /\ ChatForeignKeysHold(task[c].room, task[c].user)
  /\ chatLog' = Append(chatLog, [sessionId |-> task[c].room, userId |-> task[c].user,
                                 message |-> task[c].message])
  /\ task' = [task EXCEPT ![c].pc = "m_emit"]
  /\ UNCHANGED <<restVars, calls, callers, sockets, rooms, inbox, online, userSocket, clock>>

(* the failed create broadcast all the same *)
SendPersistFailsAndEmits(c) ==
  /\ task[c].pc = "m_create"
  /\ task' = [task EXCEPT ![c].pc = "m_emit"]
  /\ UNCHANGED <<restVars, calls, callers, chatLog, sockets, rooms, inbox, online,
                 userSocket, clock>>

(* prisma.sessionChat.create throws (a foreign key fails, the store is
   unreachable): catch logs 'Chat error' and the handler ends *)
SendPersistFails(c) ==
  /\ task[c].pc = "m_create"
  /\ task' = [task EXCEPT ![c] = NoTask]
  /\ UNCHANGED <<restVars, calls, callers, chatLog, sockets, rooms, inbox, online,
                 userSocket, clock>>

(* the await has resumed: io.to(`session:${sessionId}`).emit('new_message', chatMessage) *)
SendEmit(c) ==
  /\ task[c].pc = "m_emit"
  /\ Deliver(RoomRecipients(task[c].room),
             [event |-> "new_message", room |-> task[c].room, from |-> "server",
              body |-> task[c].message])
  /\ task' = [task EXCEPT ![c] = NoTask]
  /\ UNCHANGED <<restVars, calls, callers, chatLog, sockets, rooms, online, userSocket, clock>>

(* the state in which session 1 of H is active, H has two authenticated
   connections s1 and s2 (two tabs) in the session's room, and s3 is
   connected and has not authenticated *)
InitRealtime ==
  /\ profiles = {"H"}
  /\ sessions = <<[NewSession("H", 1, 1) EXCEPT !.status = ACTIVE]>>
  /\ participants = (<<1, "H">> :> NewParticipant("PLAYER", TRUE))
  /\ playCount = 1
  /\ emitted = <<>>
  /\ proc = [p \in Procs |-> Idle]
  /\ lastResponse = [result |-> R_Created, user |-> "H", sid |-> 1]
  /\ now = 1
  /\ callers = {"H"}
  /\ calls = 0
  /\ codeGen = NotCalled
  /\ sessionHistory = {}
  /\ listing = NotListed
  /\ chatLog = <<>>
  /\ sockets = [c \in Conns |->
       [NoSocket EXCEPT !.connected = TRUE,
                        !.userId = IF c = "s3" THEN NoProfile ELSE "H"]]
  /\ rooms = {<<1, "s1">>, <<1, "s2">>}
  /\ inbox = [c \in Conns |-> <<>>]
  /\ task = [c \in Conns |-> NoTask]
  /\ online = {"H"}
  /\ userSocket = ("H" :> [socket |-> "s2", expires |-> SocketTtl])
  /\ clock = 0

(* rooms, relays and chat *)
NextChat ==
  \/ \E c \in Conns, r \in UnknownId..MaxCalls : JoinSessionRoom(c, r)
  \/ \E c \in Conns : JoinRoomSnapshot(c)
  \/ \E c \in Conns, r \in UnknownId..MaxCalls : LeaveSessionRoom(c, r)
  \/ \E c \in Conns, r \in UnknownId..MaxCalls, ev \in RelayEvents : Relay(c, r, ev)
  \/ \E c \in Conns, r \in UnknownId..MaxCalls : SendMessage(c, r)
  \/ \E c \in Conns : SendPersist(c)
  \/ \E c \in Conns : SendPersistFails(c)
  \/ \E c \in Conns : SendEmit(c)
  \/ \E c \in Conns : SocketDisconnect(c)
  \/ \E c \in Conns : DisconnectSrem(c)
  \/ \E c \in Conns : DisconnectDel(c)

SpecChat == InitRealtime /\ [][NextChat]_vars

(* ... with the join, leave and end routes, for the session-scoped
   emissions of the REST handlers *)
NextRooms ==
  \/ NextChat
  \/ \E p \in Procs, u \in Users, s \in UnknownId..MaxCalls : CallLeaveSession(p, u, s)
  \/ \E p \in Procs : LeaveFindProfile(p)
  \/ \E p \in Procs : LeaveUpdate(p)
  \/ \E p \in Procs, u \in Users, s \in UnknownId..MaxCalls, role \in Roles : CallJoinSession(p, u, s, role)
  \/ \E p \in Procs : JoinFindProfile(p)
  \/ \E p \in Procs : JoinCreateProfile(p)
  \/ \E p \in Procs : JoinFindSession(p)
  \/ \E p \in Procs : JoinFindParticipant(p)
  \/ \E p \in Procs : JoinCreate(p)
  \/ \E p \in Procs, u \in Users, s \in UnknownId..MaxCalls : CallEndSession(p, u, s)
  \/ \E p \in Procs : EndFindProfile(p)
  \/ \E p \in Procs : EndFindSession(p)
  \/ \E p \in Procs : EndEnding(p)
  \/ \E p \in Procs : EndMarkLeft(p)
  \/ \E p \in Procs : EndEnded(p)

SpecRooms == InitRealtime /\ [][NextRooms]_vars

(* connections coming and going, and time *)
NextPresence ==
  \/ \E c \in Conns : Connect(c)
  \/ \E c \in Conns, u \in Users \cup {NoProfile} : Authenticate(c, u)
  \/ \E c \in Conns : AuthValidate(c)
  \/ \E c \in Conns : AuthSadd(c)
  \/ \E c \in Conns : AuthSetex(c)
  \/ \E c \in Conns : SocketDisconnect(c)
  \/ \E c \in Conns : DisconnectSrem(c)
  \/ \E c \in Conns : DisconnectDel(c)
  \/ ServerCrash
  \/ Tick

SpecPresence == InitRealtime /\ [][NextPresence]_vars

(* an await of socket.on('authenticate') throws (the auth service, redis):
   the handler's catch logs and emits authentication_error to the socket;
   socket.userId keeps what it was given before the throw *)
AuthenticateFails(c) ==
  /\ task[c].pc \in {"a_validate", "a_sadd", "a_setex"}
  /\ DeliverTo(c, [event |-> "authentication_error", room |-> UnknownId,
                   from |-> "server", body |-> NoProfile])
  /\ task' = [task EXCEPT ![c] = NoTask]
  /\ UNCHANGED <<restVars, calls, callers, chatLog, sockets, rooms, online,
                 userSocket, clock>>

(* the findUnique of join_session_room throws: the async listener has no
   try/catch, its promise is rejected and nobody handles the rejection; the
   file installs no 'unhandledRejection' listener and node 20 ends the
   process on an unhandled rejection *)
JoinRoomFindFails(c) ==
  /\ task[c].pc = "r_find"
  /\ ProcessExit
  /\ UNCHANGED calls

(* redis.srem or redis.del of socket.on('disconnect') throws: no try/catch
   either *)
DisconnectFails(c) ==
  /\ sockets[c].closing \in {"d_srem", "d_del"}
  /\ ProcessExit
  /\ UNCHANGED calls

(* the socket handlers with the failures of their awaits *)
NextSocketFaulty ==
  \/ \E c \in Conns : Connect(c)
  \/ \E c \in Conns, u \in Users \cup {NoProfile} : Authenticate(c, u)
  \/ \E c \in Conns : AuthValidate(c)
  \/ \E c \in Conns : AuthSadd(c)
  \/ \E c \in Conns : AuthSetex(c)
  \/ \E c \in Conns : AuthenticateFails(c)
  \/ \E c \in Conns, r \in UnknownId..MaxCalls : JoinSessionRoom(c, r)
  \/ \E c \in Conns : JoinRoomSnapshot(c)
  \/ \E c \in Conns : JoinRoomFindFails(c)
  \/ \E c \in Conns, r \in UnknownId..MaxCalls : SendMessage(c, r)
  \/ \E c \in Conns : SendPersist(c)
  \/ \E c \in Conns : SendPersistFails(c)
  \/ \E c \in Conns : SendEmit(c)
  \/ \E c \in Conns : SocketDisconnect(c)
  \/ \E c \in Conns : DisconnectSrem(c)
  \/ \E c \in Conns : DisconnectDel(c)
  \/ \E c \in Conns : DisconnectFails(c)

SpecSocketFaulty == InitRealtime /\ [][NextSocketFaulty]_vars

(* ---------------------------------------------------------------------- *)
(* GET /api/sessions  (listActiveSessions): one findMany over the            *)
(* game_sessions table.  The table is built row by row: started_at is the   *)
(* store's clock at the insert, most rows are public active sessions of     *)
(* game g1, up to MaxVaried rows have any status, privacy and game.         *)
(* ---------------------------------------------------------------------- *)
PageSize == 20

Games == {"g1", "g2"}

Statuses == {STARTING, ACTIVE, ENDING, ENDED}

RowChoices == [status : Statuses, isPrivate : BOOLEAN, gameId : Games]

PlainRow == [status |-> ACTIVE, isPrivate |-> FALSE, gameId |-> "g1"]

Varied(table) == {i \in 1..Len(table) :
                    [status |-> table[i].status, isPrivate |-> table[i].isPrivate,
                     gameId |-> table[i].gameId] # PlainRow}

(* a row of game_sessions is stored; started_at DEFAULT CURRENT_TIMESTAMP *)
InsertSession(row) ==
  /\ ~listing.called
  /\ Len(listing.table) < MaxRows
  /\ row = PlainRow \/ Cardinality(Varied(listing.table)) < MaxVaried
  /\ listing' = [listing EXCEPT !.table =
       Append(@, [status |-> row.status, isPrivate |-> row.isPrivate,
                  gameId |-> row.gameId, startedAt |-> Len(@) + 1])]
  /\ UNCHANGED <<profiles, sessions, participants, playCount, emitted, proc,
                 lastResponse, now, calls, callers, codeGen, sessionHistory,
                 socketVars, inbox>>

(* the where of the query without isPrivate: false *)
WhereWithPrivate(session, gameId) ==
  /\ session.status \in {STARTING, ACTIVE}
  /\ gameId # NoGame => session.gameId = gameId

(* where = { status: { in: ['STARTING', 'ACTIVE'] }, isPrivate: false,
             ...(gameId && { gameId }) } *)
Where(session, gameId) ==
  /\ session.status \in {STARTING, ACTIVE}
  /\ ~session.isPrivate
  /\ gameId # NoGame => session.gameId = gameId

(* orderBy: { startedAt: 'desc' }: the ids sorted, latest first *)
OrderByStartedAtDesc(table, ids) ==
  SortSeq(ids, LAMBDA i, j : table[i].startedAt > table[j].startedAt)

(* take: n *)
Take(rows, n) == SubSeq(rows, 1, IF Len(rows) < n THEN Len(rows) ELSE n)

(* prisma.gameSession.findMany({ where, take: 20, orderBy }) *)
FindMany(table, gameId) ==
  LET matching(i) == Where(table[i], gameId)
  IN  Take(OrderByStartedAtDesc(table, SelectSeq([i \in 1..Len(table) |-> i], matching)),
           PageSize)

(* the handler: its one await, then res.json of the rows found *)
ListSessions(gameId) ==
  /\ ~listing.called
  /\ listing' = [listing EXCEPT !.called = TRUE, !.gameId = gameId,
                                !.sessions = FindMany(listing.table, gameId)]
  /\ UNCHANGED <<profiles, sessions, participants, playCount, emitted, proc,
                 lastResponse, now, calls, callers, codeGen, sessionHistory,
                 socketVars, inbox>>

NextList ==
  \/ \E row \in RowChoices : InsertSession(row)
  \/ \E gameId \in Games \cup {NoGame} : ListSessions(gameId)

SpecList == Init /\ [][NextList]_vars

(* ---------------------------------------------------------------------- *)
(* Properties                                                              *)
(* ---------------------------------------------------------------------- *)
Quiescent == \A p \in Procs : Free(p)

(* the step is taken by the handler running in slot p *)
Steps(p) == ~Free(p) /\ proc'[p] # proc[p]

(* the step is the one at which the handler in slot p answers *)
Answers(p) == ~Free(p) /\ Free(p)'

StoreUnchanged == UNCHANGED <<sessions, participants, emitted>>

(* C1: in every reachable state the number of currently-present player rows
   of a session does not exceed its max_players (stated for sessions created
   with max_players >= 1, so that the host's own row is not what breaks it) *)
C1_PlayersWithinCapacity ==
  \A s \in Existing :
    sessions[s].maxPlayers >= 1 =>
      Cardinality(PresentPlayers(s)) <= sessions[s].maxPlayers

(* C2: whenever no request is in flight, the stored current_players of every
   session equals the number of its currently-present player rows *)
C2_CounterMatchesRoster ==
  Quiescent =>
    \A s \in Existing : sessions[s].currentPlayers = Cardinality(PresentPlayers(s))

(* C3: no reachable state has a session with status ended and a participant
   row of that session with left-at = null *)
C3_NoPresentRowInEndedSession ==
  \A s \in Existing :
    sessions[s].status = ENDED => \A u \in Users : ~IsPresent(s, u)

(* C4: the status never changes from ended to another value, nor from ending
   back to active or starting *)
C4_StatusMovesForward ==
  [][\A s \in Existing :
       /\ sessions[s].status = ENDED => sessions'[s].status = ENDED
       /\ sessions[s].status = ENDING => sessions'[s].status \in {ENDING, ENDED}]_vars

(* C5: an endSession that the host calls on a session that had already ended
   changes neither the session row, nor any participant row, nor broadcasts
   anything, and it is not answered with success *)
C5_EndOfEndedSessionIsNoOp ==
  [][\A p \in Procs :
       (/\ Steps(p)
        /\ proc[p].op = "end"
        /\ proc[p].statusAtCall = ENDED
        /\ sessions[proc[p].sid].createdBy = proc[p].user)
       => /\ StoreUnchanged
          /\ Answers(p) => lastResponse'.result # R_Ended]_vars

(* C6: when endSession answers success the session is ended and none of its
   participants is currently present, and a joinSession that finds the
   session ended is rejected and adds no participant row *)
C6_EndedSessionIsSealed ==
  [][\A p \in Procs :
       /\ (Answers(p) /\ lastResponse'.result = R_Ended)
            => /\ sessions'[proc[p].sid].status = ENDED
               /\ \A u \in Users :
                    <<proc[p].sid, u>> \in DOMAIN participants'
                      => participants'[<<proc[p].sid, u>>].leftAt # NULL
       /\ (Steps(p) /\ proc[p].pc = "j_findSession" /\ StatusOf(proc[p].sid) = ENDED)
            => /\ Answers(p)
               /\ lastResponse'.result = R_NotFoundOrNotActive
               /\ participants' = participants]_vars

(* C7: every step of an endSession called by a user who is not the creator
   of the (existing) session leaves the session rows, the participant rows
   and the broadcast log unchanged, and the call is answered Forbidden *)
C7_NonHostEndIsRejected ==
  [][\A p \in Procs :
       (/\ Steps(p)
        /\ proc[p].op = "end"
        /\ proc[p].sid \in Existing
        /\ sessions[proc[p].sid].createdBy # proc[p].user)
       => /\ StoreUnchanged
          /\ IF Answers(p)
               THEN lastResponse'.result = R_Forbidden
               ELSE proc'[p].pc = "e_findSession"]_vars

(* a non-creator was answered Forbidden on an active session that still has
   a currently-present participant *)
C7_Witness ==
  /\ lastResponse.result = R_Forbidden
  /\ lastResponse.sid \in Existing
  /\ sessions[lastResponse.sid].status = ACTIVE
  /\ sessions[lastResponse.sid].createdBy # lastResponse.user
  /\ lastResponse.user \in profiles
  /\ \E u \in Users : IsPresent(lastResponse.sid, u)

(* C8: joinSession and leaveSession called on a session whose status is
   ended leave the session row and all participant rows unchanged, broadcast
   nothing, and are not answered with success *)
C8_TerminalSessionRejectsJoinAndLeave ==
  [][\A p \in Procs :
       (/\ Steps(p)
        /\ proc[p].op \in {"join", "leave"}
        /\ proc[p].statusAtCall = ENDED)
       => /\ StoreUnchanged
          /\ Answers(p) => lastResponse'.result \notin {R_Joined, R_Left}]_vars

(* currently-present players of s other than its host *)
PresentGuests(s) == {u \in PresentPlayers(s) : ~participants[<<s, u>>].isHost}

(* C9: a role=player joinSession is never answered success on a session in
   which the currently-present players besides the host already number
   max_players (the scenario: maxPlayers = 2, A and B joined, C joins) *)
C9_FullSessionRejectsPlayerJoin ==
  [][\A p \in Procs :
       (/\ Answers(p)
        /\ proc[p].op = "join"
        /\ proc[p].role = "PLAYER"
        /\ proc[p].sid \in Existing
        /\ sessions[proc[p].sid].maxPlayers >= 1
        /\ Cardinality(PresentGuests(proc[p].sid)) >= sessions[proc[p].sid].maxPlayers)
       => /\ lastResponse'.result # R_Joined
          /\ participants' = participants]_vars

(* C10 as stated: a joinSession called by a user who was currently present
   in the then active session is answered AlreadyPresent *)
C10_PresentUserGetsAlreadyPresent ==
  [][\A p \in Procs :
       (/\ Answers(p)
        /\ proc[p].op = "join"
        /\ proc[p].statusAtCall = ACTIVE
        /\ proc[p].presentAtCall)
       => lastResponse'.result = R_AlreadyPresent]_vars

(* C10 amended: the capacity check comes first.  A joinSession that reads an
   active session in which the caller is currently present is answered Full
   exactly when it is a role=player call and the stored current_players has
   reached max_players, and otherwise goes on to the participant lookup; a
   lookup that finds the caller's row with left-at = null is answered
   AlreadyPresent.  None of these steps changes a session row, a participant
   row or the broadcast log *)
C10_AlreadyPresentAfterCapacityCheck ==
  [][\A p \in Procs :
       /\ (/\ Steps(p)
           /\ proc[p].pc = "j_findSession"
           /\ StatusOf(proc[p].sid) = ACTIVE
           /\ IsPresent(proc[p].sid, proc[p].userProfile))
          => /\ StoreUnchanged
             /\ IF /\ proc[p].role = "PLAYER"
                   /\ sessions[proc[p].sid].currentPlayers >= sessions[proc[p].sid].maxPlayers
                  THEN Answers(p) /\ lastResponse'.result = R_Full
                  ELSE proc'[p].pc = "j_findParticipant"
       /\ (/\ Steps(p)
           /\ proc[p].pc = "j_findParticipant"
           /\ IsPresent(proc[p].sid, proc[p].userProfile))
          => /\ StoreUnchanged
             /\ Answers(p)
             /\ lastResponse'.result = R_AlreadyPresent]_vars

(* a present user's second join was answered AlreadyPresent on an active
   session, the row still present and no user_joined broadcast for it *)
C10_Witness ==
  /\ lastResponse.result = R_AlreadyPresent
  /\ StatusOf(lastResponse.sid) = ACTIVE
  /\ IsPresent(lastResponse.sid, lastResponse.user)
  /\ \A i \in 1..Len(emitted) :
       ~(emitted[i].event = "user_joined" /\ emitted[i].userId = lastResponse.user)

(* C11: a (session, user) pair never has more than one currently-present
   participant row.  The table holds one row per primary key, so the count
   can only grow past one by an insert that goes through for a pair that has
   a row: no joinSession is answered success, and no row is written by its
   insert, for a pair that had a row, two concurrent joins of the same user
   included; and a pair only becomes present by a row inserted for it *)
C11_OnePresentRowPerPair ==
  [][/\ \A p \in Procs :
          (Steps(p) /\ proc[p].pc = "j_create"
             /\ HasRow(proc[p].sid, proc[p].userProfile))
          => /\ participants' = participants
             /\ emitted' = emitted
             /\ lastResponse'.result = R_JoinFailed
     /\ \A k \in DOMAIN participants' :
          (participants'[k].leftAt = NULL /\ k \in DOMAIN participants)
          => participants[k].leftAt = NULL]_vars

(* two joins of the same user ran concurrently: one inserted the row and
   was answered success, the other is past the lookup and about to insert *)
C11_Witness ==
  \E p \in Procs :
    /\ proc[p].pc = "j_create"
    /\ IsPresent(proc[p].sid, proc[p].userProfile)
    /\ ~participants[<<proc[p].sid, proc[p].userProfile>>].isHost
    /\ lastResponse = [result |-> R_Joined, user |-> proc[p].user, sid |-> proc[p].sid]

(* C12: a joinSession called by a user who had joined the session and left
   it, and which finds the session active and with capacity, succeeds: its
   insert step leaves the row currently present, broadcasts user_joined and
   is answered success *)
C12_RejoinAfterLeaveSucceeds ==
  [][\A p \in Procs :
       (/\ Steps(p)
        /\ proc[p].pc = "j_create"
        /\ proc[p].leftAtCall
        /\ ~participants[<<proc[p].sid, proc[p].userProfile>>].isHost
        /\ StatusOf(proc[p].sid) = ACTIVE
        /\ (proc[p].role = "PLAYER" =>
              Cardinality(PresentPlayers(proc[p].sid)) < sessions[proc[p].sid].maxPlayers))
       => /\ lastResponse'.result = R_Joined
          /\ participants'[<<proc[p].sid, proc[p].userProfile>>].leftAt = NULL
          /\ emitted' = Append(emitted, [event |-> "user_joined", room |-> proc[p].sid,
                                         userId |-> proc[p].userProfile])]_vars

(* answers with HTTP status 404 *)
NotFoundResults == {R_NoProfile, R_SessionNotFound, R_NotFoundOrNotActive}

(* C13: a leaveSession called by a user whose row in the session already
   had left-at set changes no session row and no participant row (left-at and
   duration keep the values of the first leave, no counter is decremented),
   broadcasts no second user_left, and is answered NotFound *)
C13_SecondLeaveIsNoOp ==
  [][\A p \in Procs :
       (/\ Steps(p)
        /\ proc[p].op = "leave"
        /\ proc[p].leftAtCall)
       => /\ StoreUnchanged
          /\ Answers(p) => lastResponse'.result \in NotFoundResults]_vars

(* C14: a leaveSession by a user who has no participant row in the (stored)
   session changes no session row and no participant row, broadcasts no
   user_left, and is answered NotFound *)
C14_LeaveWithoutRowIsNotFound ==
  [][\A p \in Procs :
       (/\ Steps(p)
        /\ proc[p].op = "leave"
        /\ proc[p].sid \in Existing
        /\ ~HasRow(proc[p].sid, proc[p].user))
       => /\ StoreUnchanged
          /\ Answers(p) => lastResponse'.result \in NotFoundResults]_vars

LiveSessionsOf(u) ==
  {s \in Existing : sessions[s].createdBy = u /\ sessions[s].status \in {STARTING, ACTIVE}}

(* C15: in every reachable state each user is the creator of at most one
   session whose status is starting or active, two concurrent createSession
   calls of the same user included *)
C15_OneLiveSessionPerCreator ==
  \A u \in Users : Cardinality(LiveSessionsOf(u)) <= 1

RowsOf(s) == {u \in Users : HasRow(s, u)}

(* C16 as stated: at the step at which createSession reports success the new
   session has status active and exactly one participant row, the creator's,
   with role player, the host flag and left-at = null *)
C16_SuccessMeansActiveWithOnlyHostRow ==
  [][\A p \in Procs :
       (Answers(p) /\ lastResponse'.result = R_Created)
       => /\ sessions'[proc[p].sid].status = ACTIVE
          /\ \A u \in Users :
               <<proc[p].sid, u>> \in DOMAIN participants' => u = proc[p].userProfile
          /\ participants'[<<proc[p].sid, proc[p].userProfile>>]
               = NewParticipant("PLAYER", TRUE)]_vars

(* C16 amended: the session row appears in the same step as its creator's
   participant row (player, host flag, left-at = null) and no other row; in
   every state every stored session has its creator's row, with role player
   and as its only host row, and a session that is still starting has no
   other row; when success is reported the session is no longer starting,
   and it is active unless an endSession has already written to it *)
C16_HostRowComesWithSession ==
  [][/\ \A s \in Existing' :
          /\ <<s, sessions'[s].createdBy>> \in DOMAIN participants'
          /\ participants'[<<s, sessions'[s].createdBy>>].role = "PLAYER"
          /\ \A u \in Users :
               <<s, u>> \in DOMAIN participants' =>
                 /\ participants'[<<s, u>>].isHost <=> u = sessions'[s].createdBy
                 /\ sessions'[s].status = STARTING => u = sessions'[s].createdBy
          /\ s \notin Existing =>
               /\ sessions'[s].status = STARTING
               /\ participants'[<<s, sessions'[s].createdBy>>] = NewParticipant("PLAYER", TRUE)
     /\ \A p \in Procs :
          (Answers(p) /\ lastResponse'.result = R_Created)
          => /\ sessions'[proc[p].sid].status # STARTING
             /\ sessions'[proc[p].sid].status = ACTIVE
                  \/ sessions'[proc[p].sid].endedAt # NULL]_vars

(* success was reported for a session that is active and whose host is
   present, and a joinSession that ran between the activation and the
   response has already added a second row *)
C16_Witness ==
  /\ lastResponse.result = R_Created
  /\ StatusOf(lastResponse.sid) = ACTIVE
  /\ IsPresent(lastResponse.sid, lastResponse.user)
  /\ participants[<<lastResponse.sid, lastResponse.user>>].isHost
  /\ Cardinality(RowsOf(lastResponse.sid)) = 2

(* C17: a createSession that is reported failed after its transaction had
   committed leaves no session of that attempt in status starting or active,
   and it had not incremented the play counter (the only step of the handler
   behind the increment is the publish) *)
C17_FailedCreateLeavesNoPartialState ==
  [][\A p \in Procs :
       (/\ Answers(p)
        /\ proc[p].op = "create"
        /\ proc[p].sid \in Existing
        /\ lastResponse'.result = R_CreateFailed)
       => /\ sessions'[proc[p].sid].status \notin {STARTING, ACTIVE}
          /\ proc[p].pc # "c_publish"]_vars

(* C18: in every reachable state no two stored sessions hold the same join
   code *)
C18_JoinCodesAreUnique ==
  \A s1 \in Existing, s2 \in Existing :
    s1 # s2 => sessions[s1].sessionCode # sessions[s2].sessionCode

(* two creations were in flight together and both succeeded: two sessions
   are stored and active at once *)
C18_Witness ==
  /\ Len(sessions) >= 2
  /\ \A s \in Existing : sessions[s].status = ACTIVE
  /\ lastResponse.result = R_Created
  /\ \E p \in Procs : proc[p].op = "create" /\ proc[p].pc = "c_publish"

(* C19: a createSession whose drawn join code collides with a stored
   session's code is not failed by that one collision: the step that draws
   the code does not answer the request with a failure *)
C19_SingleCollisionDoesNotFailCreate ==
  [][\A p \in Procs :
       (Steps(p) /\ proc[p].pc = "c_tx")
       => ~(Answers(p) /\ lastResponse'.result = R_CreateFailed)]_vars

Alphabet == {SessionCodeChars[j] : j \in 1..Len(SessionCodeChars)}

AmbiguousChars == {"0", "O", "1", "I", "L"}

(* the code generateSessionCode() returned has exactly 6 characters, each of
   them a symbol of the alphabet, and the alphabet has no ambiguous symbol *)
ReturnedCodeIsWellFormed ==
  /\ Len(codeGen.result) = 6
  /\ \A j \in 1..Len(codeGen.result) : codeGen.result[j] \in Alphabet
  /\ Alphabet \cap AmbiguousChars = {}

(* C20 as stated: every code generateSessionCode() returns has exactly 6
   characters, each drawn from an alphabet of exactly 32 distinct symbols
   that contains none of 0, O, 1, I, L *)
C20_CodeFromThirtyTwoSymbols ==
  codeGen.pc = "returned" =>
    ReturnedCodeIsWellFormed /\ Cardinality(Alphabet) = 32

(* C20 amended: every code generateSessionCode() returns has exactly 6
   characters, each drawn from an alphabet of exactly 31 distinct symbols
   (the 26 capitals without I, L, O and the digits 2 to 9) that contains
   none of 0, O, 1, I, L *)
C20_CodeFromThirtyOneSymbols ==
  codeGen.pc = "returned" =>
    /\ ReturnedCodeIsWellFormed
    /\ Cardinality(Alphabet) = 31
    /\ Len(SessionCodeChars) = 31

(* a code was returned whose characters come from both ends of the range of
   Math.random(): the first symbol of the alphabet and a later one *)
C20_Witness ==
  /\ codeGen.pc = "returned"
  /\ Len(codeGen.result) = CodeLength
  /\ codeGen.result[1] = "A"
  /\ codeGen.result[CodeLength] # "A"

(* the handler in slot p is at its prisma.userProfile.create *)
CreatesProfile(p) == proc[p].pc \in {"c_createProfile", "j_createProfile"}

(* C21: an external id never gets a second profile.  The table holds one
   profile per external id as long as no insert goes through for an id that
   has one: a create that finds the id taken, the second of two concurrent
   first-contact requests included, writes nothing and ends its request
   with a failure; and no step adds more than one profile or removes one *)
C21_OneProfilePerExternalId ==
  [][/\ \A p \in Procs :
          (Steps(p) /\ CreatesProfile(p) /\ proc[p].user \in profiles)
          => /\ profiles' = profiles
             /\ Answers(p)
             /\ lastResponse'.result \in {R_CreateFailed, R_JoinFailed}
     /\ profiles \subseteq profiles'
     /\ Cardinality(profiles' \ profiles) <= 1]_vars

(* two first-contact requests of one user race: both read no profile, one
   has created it and the other is about to run its create *)
C21_Witness ==
  /\ \E p \in Procs : CreatesProfile(p) /\ proc[p].user \in profiles
  /\ \E q \in Procs : ~CreatesProfile(q) /\ ~Free(q) /\ proc[q].userProfile \in profiles

(* C22: identity resolution always succeeds: no request is ended with a
   failure by its profile create, each of two requests racing on a user's
   first contact included *)
C22_ResolveNeverFails ==
  [][\A p \in Procs :
       (Steps(p) /\ CreatesProfile(p))
       => /\ ~Answers(p)
          /\ proc'[p].userProfile = proc[p].user]_vars

(* the message numbers of the new_message events connection c has received
   for session r, in the order it received them *)
MessagesSeen(c, r) ==
  LET IsOfRoom(e) == e.event = "new_message" /\ e.room = r
      seen == SelectSeq(inbox[c], IsOfRoom)
  IN  [i \in 1..Len(seen) |-> seen[i].body]

(* the place of message m in the order in which the Chat Log accepted the
   messages; 0 when it is not stored *)
AcceptedAt(m) ==
  IF \E i \in 1..Len(chatLog) : chatLog[i].message = m
    THEN CHOOSE i \in 1..Len(chatLog) : chatLog[i].message = m
    ELSE 0

(* C23: every connection receives the new_message events of a session in the
   order in which the messages were persisted, so that all connections of
   the session's room see the same relative order, also when connections
   send concurrently *)
C23_ChatOrderIsAcceptanceOrder ==
  \A c \in Conns, r \in SessionIds :
    \A i \in 1..Len(MessagesSeen(c, r)), j \in 1..Len(MessagesSeen(c, r)) :
      i < j => AcceptedAt(MessagesSeen(c, r)[i]) < AcceptedAt(MessagesSeen(c, r)[j])

(* message m of session r is a row of the Chat Log *)
Persisted(m, r) ==
  \E k \in 1..Len(chatLog) : chatLog[k].message = m /\ chatLog[k].sessionId = r

(* C24: every new_message event a connection has received is that of a
   message stored in the Chat Log, and a send_message handler is at its
   broadcast only if its message is stored: a failed insert is followed by
   no new_message *)
C24_BroadcastOnlyAfterPersist ==
  /\ \A c \in Conns : \A i \in 1..Len(inbox[c]) :
       inbox[c][i].event = "new_message" => Persisted(inbox[c][i].body, inbox[c][i].room)
  /\ \A c \in Conns :
       task[c].pc = "m_emit" => Persisted(task[c].message, task[c].room)

(* a message was stored and then broadcast to the two connections of the
   room, and the insert of another one, sent into a room that names no
   session, is about to fail *)
C24_Witness ==
  /\ Len(chatLog) = 1
  /\ MessagesSeen("s1", 1) = <<chatLog[1].message>>
  /\ MessagesSeen("s2", 1) = <<chatLog[1].message>>
  /\ \E c \in Conns :
       task[c].pc = "m_create" /\ ~ChatForeignKeysHold(task[c].room, task[c].user)

(* C25: an event a connection relays for a session (input, offer, answer,
   ice candidate) is received by every other connection that is in the
   session's room, and the sender does not receive it; no connection ever
   holds a relayed event of its own *)
C25_RelayReachesOthersNotSender ==
  [][/\ \A c \in Conns, r \in SessionIds, ev \in RelayEvents :
          Relay(c, r, ev) =>
            /\ \A d \in Members(r) \ {c} :
                 inbox'[d] = Append(inbox[d], [event |-> ev, room |-> r, from |-> c,
                                               body |-> sockets[c].userId])
            /\ inbox'[c] = inbox[c]
     /\ \A c \in Conns : \A i \in 1..Len(inbox'[c]) :
          inbox'[c][i].event \in RelayEvents => inbox'[c][i].from # c]_vars

(* s2, a member of the room of session 1, relayed one event: s1, the other
   member, has received it, and s2 itself and s3 have received nothing *)
C25_Witness ==
  /\ {<<1, "s1">>, <<1, "s2">>} \subseteq rooms
  /\ Len(inbox["s1"]) = 1
  /\ inbox["s1"][1].event \in RelayEvents
  /\ inbox["s1"][1].from = "s2"
  /\ inbox["s2"] = <<>>
  /\ inbox["s3"] = <<>>

SessionScopedEvents ==
  {"user_joined", "user_left", "new_message", "session_ended"} \cup RelayEvents

(* C26: a connection receives a session-scoped event of session S only if it
   is in S's room when the event is emitted, and every connection of the room
   (the sender of a relayed event aside) receives it; a connection that has
   disconnected is in no room, so that one that never joined the room, left
   it or disconnected receives none *)
C26_ScopedEventsReachExactlyTheRoom ==
  [][/\ \A d \in Conns :
          (/\ Len(inbox'[d]) > Len(inbox[d])
           /\ inbox'[d][Len(inbox'[d])].event \in SessionScopedEvents)
          => LET e == inbox'[d][Len(inbox'[d])]
             IN  /\ d \in Members(e.room)
                 /\ \A m \in Conns :
                      inbox'[m] = IF m \in Members(e.room) \ {e.from}
                                    THEN Append(inbox[m], e) ELSE inbox[m]
     /\ \A m \in rooms' : sockets'[m[2]].connected]_vars

(* session 1 was ended while s1 was in its room, s2 had left the room and
   s3 had never joined it: s1 has received session_ended, s2 and s3 nothing *)
C26_Witness ==
  /\ Len(inbox["s1"]) = 1
  /\ inbox["s1"][1].event = "session_ended"
  /\ inbox["s2"] = <<>>
  /\ inbox["s3"] = <<>>
  /\ sockets["s2"].connected
  /\ sockets["s3"].connected

(* C27: when the disconnect handler of a connection has run and the
   connection's user is a present participant of a session, the user has left
   that session as by leaveSession: the row's left-at is set and user_left
   has been emitted to the session's room *)
C27_DisconnectLeavesSession ==
  [][\A c \in Conns, s \in Existing :
       (DisconnectDel(c) /\ IsPresent(s, sockets[c].userId))
       => /\ HasLeft(s, sockets[c].userId)'
          /\ \E i \in DOMAIN emitted' :
               emitted'[i] = [event |-> "user_left", room |-> s,
                              userId |-> sockets[c].userId]]_vars

(* no authenticate or disconnect handler is in flight, and no connection was
   closed without its disconnect handler *)
HandlersCompleted ==
  \A c \in Conns : /\ task[c] = NoTask
                   /\ sockets[c].closing = "none"
                   /\ sockets[c].hardClosedAt = Never

OpenConnectionsOf(u) == {c \in Conns : sockets[c].connected /\ sockets[c].userId = u}

(* C28: once every connect and disconnect handler has completed, a user is
   in the online set exactly when the user has at least one open
   authenticated connection; a user with two connections stays online after
   one of them disconnects *)
C28_OnlineIffOpenConnection ==
  HandlersCompleted
  => \A u \in Users : u \in online <=> OpenConnectionsOf(u) # {}

(* GET /api/users/online: the profiles whose id is in the online set *)
OnlineUsersListed == online \cap profiles

(* the connections of user u that were closed without their disconnect
   handler *)
HardClosedOf(u) ==
  {c \in Conns : sockets[c].userId = u /\ sockets[c].hardClosedAt # Never}

(* C29: a user whose connections were all closed without their disconnect
   handler, and who has not authenticated since, is listed online for at most
   one TTL window after the last of them was closed *)
C29_HardDisconnectExpires ==
  \A u \in Users :
    (/\ OpenConnectionsOf(u) = {}
     /\ \A c \in Conns : task[c].user # u /\ sockets[c].closing = "none"
     /\ HardClosedOf(u) # {}
     /\ \A c \in HardClosedOf(u) : clock > sockets[c].hardClosedAt + SocketTtl)
    => u \notin OnlineUsersListed

SnapshotsOf(s) == {h \in sessionHistory : h.sessionId = s}

(* C30: a session that has ended has exactly one SessionHistory snapshot,
   a session that has not ended has none, and a snapshot once written is
   never modified or removed *)
C30_OneSnapshotPerEndedSession ==
  [][/\ \A s \in 1..Len(sessions') :
          Cardinality(SnapshotsOf(s)')
            = IF sessions'[s].status = ENDED THEN 1 ELSE 0
     /\ sessionHistory \subseteq sessionHistory']_vars

(* an await of a socket handler of connection c throws *)
HandlerFails(c) ==
  \/ AuthenticateFails(c)
  \/ JoinRoomFindFails(c)
  \/ SendPersistFails(c)
  \/ DisconnectFails(c)

(* C31: when a store or cache call fails inside a socket event handler, the
   failure stays in that handler: the process keeps running, so that every
   open connection stays open and the handlers in flight of the other
   connections go on *)
C31_HandlerFailureIsContained ==
  [][\A c \in Conns :
       HandlerFails(c)
       => \A d \in Conns : /\ sockets'[d].connected = sockets[d].connected
                           /\ d # c => task'[d] = task[d]]_vars

(* C32: a join on a session id that does not exist is answered with the
   not-found failure (404), and a join on an existing session whose status is
   starting, ending or ended is answered with a different failure *)
C32_NotFoundDiffersFromNotActive ==
  [][\A p \in Procs :
       (/\ Steps(p) /\ Answers(p)
        /\ proc[p].pc = "j_findSession"
        /\ NotJoinable(proc[p].sid))
       => IF proc[p].sid \in Existing
            THEN lastResponse'.result # R_NotFoundOrNotActive
            ELSE lastResponse'.result = R_NotFoundOrNotActive]_vars

(* C33: a join with role spectator on an active session whose present
   players number max_players is not refused as full, and when it is
   answered with success the session's spectator count has grown by one and
   its current_players is what it was *)
C33_SpectatorJoinCountsSpectator ==
  [][\A p \in Procs :
       (/\ Steps(p) /\ Answers(p)
        /\ proc[p].op = "join"
        /\ proc[p].role = "SPECTATOR"
        /\ proc[p].sid \in Existing
        /\ sessions[proc[p].sid].status = ACTIVE
        /\ Cardinality(PresentPlayers(proc[p].sid)) = sessions[proc[p].sid].maxPlayers)
       => /\ lastResponse'.result # R_Full
          /\ lastResponse'.result = R_Joined
             => /\ sessions'[proc[p].sid].spectatorCount
                     = sessions[proc[p].sid].spectatorCount + 1
                /\ sessions'[proc[p].sid].currentPlayers
                     = sessions[proc[p].sid].currentPlayers]_vars

(* C34: the play counter changes only by one, in the step of a createSession
   handler, and a createSession handler reports success exactly when it has
   incremented the counter; so that the counter is its initial value plus the
   number of creations that reported success, and a creation answered
   AlreadyActive or with a failure has not changed it *)
C34_PlayCountCountsSuccessfulCreates ==
  [][/\ playCount' # playCount
        => /\ playCount' = playCount + 1
           /\ \E p \in Procs : /\ proc[p].op = "create"
                                /\ proc[p].pc = "c_playCount"
                                /\ proc'[p].pc = "c_publish"
     /\ \A p \in Procs :
          (Steps(p) /\ Answers(p) /\ proc[p].op = "create")
          => (lastResponse'.result = R_Created <=> proc[p].pc = "c_publish")]_vars

(* C35: the sessions GET /api/sessions returns are non-private, of status
   starting or active, of the given game when one is given, ordered by start
   time descending and at most PageSize in number; the call leaves the
   table, and every other stored state, as it was *)
C35_ListIsPublicLiveOrderedAndCapped ==
  [][(listing'.called /\ ~listing.called)
     => LET found == listing'.sessions
            table == listing.table
        IN  /\ \A k \in 1..Len(found) :
                 /\ found[k] \in 1..Len(table)
                 /\ ~table[found[k]].isPrivate
                 /\ table[found[k]].status \in {STARTING, ACTIVE}
                 /\ listing'.gameId # NoGame
                    => table[found[k]].gameId = listing'.gameId
            /\ \A k, l \in 1..Len(found) :
                 k < l => table[found[k]].startedAt > table[found[l]].startedAt
            /\ Len(found) <= PageSize
            /\ listing'.table = table
            /\ UNCHANGED <<profiles, sessions, participants, playCount,
                           sessionHistory, chatLog, online, userSocket>>]_vars

(* more public live sessions than a page holds, one private session among
   the latest of them: the page is full and the private session, later than
   the oldest session of the page, is not on it *)
C35_Witness ==
  /\ listing.called
  /\ Len(listing.sessions) = PageSize
  /\ \E i \in 1..Len(listing.table) :
       /\ listing.table[i].isPrivate
       /\ listing.table[i].status = ACTIVE
       /\ i > listing.sessions[PageSize]
  /\ \E i \in 1..Len(listing.table) :
       /\ Where(listing.table[i], listing.gameId)
       /\ \A k \in 1..PageSize : listing.sessions[k] # i

(* C36: a participant row, once it exists, exists in every later state, and
   the left-at of a row changes only when it was null *)
C36_RowsAreKeptAndLeftAtSetOnce ==
  [][/\ DOMAIN participants \subseteq DOMAIN participants'
     /\ \A k \in DOMAIN participants :
          participants'[k].leftAt # participants[k].leftAt
          => participants[k].leftAt = NULL]_vars

(* C37: a session_participants snapshot is received only by the connection
   whose join_session_room is being handled, for the room it named, and it
   lists exactly the users whose row of that session has a null left-at when
   the handler reads the store; for an unknown session id it is empty *)
C37_SnapshotGoesToJoinerOnly ==
  [][\A d \in Conns :
       (/\ Len(inbox'[d]) > Len(inbox[d])
        /\ inbox'[d][Len(inbox'[d])].event = "session_participants")
       => LET e == inbox'[d][Len(inbox'[d])]
          IN  /\ task[d].pc = "r_find"
              /\ task[d].room = e.room
              /\ \A m \in Conns \ {d} : inbox'[m] = inbox[m]
              /\ inbox'[d] = Append(inbox[d], e)
              /\ e.body = {u \in Users :
                             /\ <<e.room, u>> \in DOMAIN participants
                             /\ participants[<<e.room, u>>].leftAt = NULL}
              /\ e.room \notin Existing => e.body = {}]_vars

(* A joined session 1 and its host H left it; a connection then joined the
   room of session 1 and was sent the snapshot listing A alone, and no other
   connection received anything but the user_joined and user_left of the
   two requests *)
C37_Witness ==
  /\ HasLeft(1, "H")
  /\ IsPresent(1, "A")
  /\ \E c \in Conns :
       /\ inbox[c] # <<>>
       /\ inbox[c][Len(inbox[c])] =
            [event |-> "session_participants", room |-> 1, from |-> "server",
             body |-> {"A"}]
       /\ \A d \in Conns \ {c} :
            \A k \in 1..Len(inbox[d]) : inbox[d][k].event # "session_participants"

(* C38: a relayed event naming session S that a connection receives was sent
   by a connection that is in the room of S when it sends it (the part of
   the claim about the relay events; a relay is handled in one step, so that
   the sender's membership when it sends is its membership at the emission) *)
C38_OnlyMembersRelayIntoRoom ==
  [][\A d \in Conns :
       (/\ Len(inbox'[d]) > Len(inbox[d])
        /\ inbox'[d][Len(inbox'[d])].event \in RelayEvents)
       => LET e == inbox'[d][Len(inbox'[d])]
          IN  e.from \in Members(e.room)]_vars

(* C39: the creator of a session never changes; the status of a session
   becomes ending or ended only in a step of an endSession handler whose
   caller is the session's creator; and a step that is not of an endSession
   or createSession handler (a joinSession or leaveSession step, a room join
   or leave, a relay, a chat message, a disconnect) leaves every session row
   as it was *)
C39_OnlyCreatorsEndEndsSession ==
  [][/\ Len(sessions') >= Len(sessions)
     /\ \A s \in 1..Len(sessions) :
          /\ sessions'[s].createdBy = sessions[s].createdBy
          /\ (/\ sessions'[s].status # sessions[s].status
              /\ sessions'[s].status \in {ENDING, ENDED})
             => \E p \in Procs : /\ Steps(p)
                                 /\ proc[p].op = "end"
                                 /\ proc[p].sid = s
                                 /\ proc[p].user = sessions[s].createdBy
     /\ (\A p \in Procs : Steps(p) => proc[p].op \in {"join", "leave"})
        => sessions' = sessions]_vars

(* the host of session 1 has left it, which leaves nobody present, and one
   of the host's connections has disconnected and its handler has run: the
   session is still active and still the host's *)
C39_Witness ==
  /\ lastResponse.result = R_Left
  /\ HasLeft(1, "H")
  /\ \A u \in Users : ~IsPresent(1, u)
  /\ ~sockets["s1"].connected
  /\ sockets["s1"].closing = "none"
  /\ "H" \notin online
  /\ sessions[1].status = ACTIVE
  /\ sessions[1].createdBy = "H"

====
